---- MODULE Spec2Model ----
(***************************************************************************)
(* Model of the Sudoku engine of src/sudoku.py: the Cell and Sudoku        *)
(* classes, the assignment operation set_cell with its candidate           *)
(* elimination, the deduction helpers and the work-list search of solve.   *)
(*                                                                         *)
(* A board is a record [cell, cells_filled]; cell maps <<row, col>> to a   *)
(* Cell record [value, possible], possible being the Python list of        *)
(* candidates (a sequence).  Python's None is modelled by the empty        *)
(* sequence and a present object by a one-element sequence.                *)
(***************************************************************************)
EXTENDS Integers, Sequences, FiniteSets

\* Cells a caller assigns clues to: the first ClueCells of the cells whose
\* row-major index is a multiple of max_val - 1 (a corner, then the
\* anti-diagonal).  Their fillings include puzzles with no, one and several
\* solutions, and puzzles on which solve backtracks.
ClueCells == 5

\* Sudoku.__init__: box_size and max_val = box_size**2
box_size == 2
max_val == box_size * box_size

Idx == 0 .. (max_val - 1)
Pos == Idx \X Idx

\* Python sequence indexing: a negative index counts from the end.
PyIdx(i) == IF i < 0 THEN i + max_val ELSE i

(***************************************************************************)
(* Cell                                                                    *)
(***************************************************************************)
\* Cell.__init__(value, max_val)
Cell(value) ==
    [value |-> value,
     possible |-> IF value = 0 THEN [i \in 1 .. max_val |-> i] ELSE << >>]

\* faulty variant: stores the value and keeps the candidate list
CellSet_keep(c, value) == [c EXCEPT !.value = value]

\* Cell.set(value): re-runs __init__
CellSet(c, value) == Cell(value)

\* value in list
InList(value, list) == \E i \in 1 .. Len(list) : list[i] = value

\* list.remove(value): drops the first occurrence
ListRemove(list, value) ==
    LET i == CHOOSE j \in 1 .. Len(list) :
                 /\ list[j] = value
                 /\ \A k \in 1 .. (j - 1) : list[k] # value
    IN  SubSeq(list, 1, i - 1) \o SubSeq(list, i + 1, Len(list))

\* faulty variant: every candidate is dropped when value is among them
remove_from_possible_clear(c, value) ==
    IF InList(value, c.possible)
    THEN [c EXCEPT !.possible = << >>]
    ELSE c

\* Cell.remove_from_possible(value)
remove_from_possible(c, value) ==
    IF InList(value, c.possible)
    THEN [c EXCEPT !.possible = ListRemove(c.possible, value)]
    ELSE c

(***************************************************************************)
(* Sudoku: construction and assignment                                     *)
(***************************************************************************)
\* Sudoku.__init__(box_size)
Sudoku ==
    [cell |-> [p \in Pos |-> Cell(0)], cells_filled |-> 0]

\* faulty variant: the row loop stops one column short
RemoveInRow_short(cell, value, row) ==
    [p \in Pos |-> IF p[1] = row /\ p[2] < max_val - 1
                   THEN remove_from_possible(cell[p], value)
                   ELSE cell[p]]

\* faulty variant: the column loop indexes cell[col][r]
RemoveInCol_swapped(cell, value, col) ==
    [p \in Pos |-> IF p[1] = col THEN remove_from_possible(cell[p], value)
                   ELSE cell[p]]

\* faulty variant: the box corner is not rounded down
RemoveInBox_unrounded(cell, value, row, col) ==
    [p \in Pos |->
        IF /\ p[1] \in row .. (row + box_size - 1)
           /\ p[2] \in col .. (col + box_size - 1)
        THEN remove_from_possible(cell[p], value)
        ELSE cell[p]]

\* a loop that calls remove_from_possible(value) on the cells ps, in order
RECURSIVE RemoveInCells(_, _, _)
RemoveInCells(cell, value, ps) ==
    IF ps = << >> THEN cell
    ELSE RemoveInCells(
             [cell EXCEPT ![Head(ps)] = remove_from_possible(@, value)],
             value, Tail(ps))

\* the three loops of remove_value_from_possibles, in program order
RemoveInRow(cell, value, row) ==
    RemoveInCells(cell, value, [c \in 1 .. max_val |-> <<row, c - 1>>])

RemoveInCol(cell, value, col) ==
    RemoveInCells(cell, value, [r \in 1 .. max_val |-> <<r - 1, col>>])

RemoveInBox(cell, value, row, col) ==
    LET box_row == (row \div box_size) * box_size
        box_col == (col \div box_size) * box_size
    IN  RemoveInCells(cell, value,
            [k \in 1 .. (box_size * box_size) |->
                <<box_row + ((k - 1) \div box_size),
                  box_col + ((k - 1) % box_size)>>])

\* Sudoku.remove_value_from_possibles(value, row, col)
remove_value_from_possibles(b, value, row, col) ==
    [b EXCEPT !.cell =
        RemoveInBox(RemoveInCol(RemoveInRow(b.cell, value, row), value, col),
                    value, row, col)]

\* faulty variant: the candidate test is missing
set_cell_untested(b, value, row, col) ==
    LET b1 == [b EXCEPT !.cell[<<row, col>>] = CellSet(@, value)]
        b2 == [b1 EXCEPT !.cells_filled = @ + 1]
    IN  [ret |-> TRUE,
         board |-> remove_value_from_possibles(b2, value, row, col)]

\* faulty variant: cells_filled is incremented before the candidate test
set_cell_count_first(b, value, row, col) ==
    LET b0 == [b EXCEPT !.cells_filled = @ + 1]
    IN  IF ~ InList(value, b.cell[<<row, col>>].possible)
        THEN [ret |-> FALSE, board |-> b0]
        ELSE [ret |-> TRUE,
              board |-> remove_value_from_possibles(
                            [b0 EXCEPT !.cell[<<row, col>>] = CellSet(@, value)],
                            value, row, col)]

\* faulty variant: cells_filled is never incremented
set_cell_nocount(b, value, row, col) ==
    IF ~ InList(value, b.cell[<<row, col>>].possible)
    THEN [ret |-> FALSE, board |-> b]
    ELSE [ret |-> TRUE,
          board |-> remove_value_from_possibles(
                        [b EXCEPT !.cell[<<row, col>>] = CellSet(@, value)],
                        value, row, col)]

\* Sudoku.set_cell(value, row, col): the returned flag and the board afterwards
set_cell(b, value, row, col) ==
    IF ~ InList(value, b.cell[<<row, col>>].possible)
    THEN [ret |-> FALSE, board |-> b]
    ELSE LET b1 == [b EXCEPT !.cell[<<row, col>>] = CellSet(@, value)]
             b2 == [b1 EXCEPT !.cells_filled = @ + 1]
         IN  [ret |-> TRUE,
              board |-> remove_value_from_possibles(b2, value, row, col)]

(***************************************************************************)
(* Sudoku: deduction helpers                                               *)
(***************************************************************************)
\* row-major scan position k <-> (row, col)
RowOf(k) == k \div max_val
ColOf(k) == k % max_val

\* Sudoku.find_one_possible: << >> stands for (None, None)
RECURSIVE ScanOnePossible(_, _)
ScanOnePossible(b, k) ==
    IF k = max_val * max_val THEN << >>
    ELSE IF Len(b.cell[<<RowOf(k), ColOf(k)>>].possible) = 1
         THEN <<RowOf(k), ColOf(k)>>
         ELSE ScanOnePossible(b, k + 1)

\* faulty variant: the scan starts at the second row
find_one_possible_skip(b) == ScanOnePossible(b, max_val)

find_one_possible(b) == ScanOnePossible(b, 0)

\* Sudoku.find_lowest_possibles: the scan with its three running variables
RECURSIVE ScanLowest(_, _, _)
ScanLowest(b, k, low) ==
    IF k = max_val * max_val THEN <<low[1], low[2]>>
    ELSE LET len_possible == Len(b.cell[<<RowOf(k), ColOf(k)>>].possible)
         IN  IF len_possible > 0 /\ len_possible < low[3]
             THEN ScanLowest(b, k + 1, <<RowOf(k), ColOf(k), len_possible>>)
             ELSE ScanLowest(b, k + 1, low)

\* faulty variant: low_poss starts at max_val
find_lowest_possibles_low(b) == ScanLowest(b, 0, <<-1, -1, max_val>>)

find_lowest_possibles(b) == ScanLowest(b, 0, <<-1, -1, max_val + 1>>)

\* faulty variant: an if in place of the while, a single forced assignment
fill_in_all_knowns_once(b) ==
    LET rc == find_one_possible(b)
    IN  IF rc = << >> THEN b
        ELSE set_cell(b, b.cell[rc].possible[1], rc[1], rc[2]).board

\* Sudoku.fill_in_all_knowns: p is the cell found by one iteration of the
\* loop and nb is self after that iteration's set_cell
RECURSIVE fill_in_all_knowns(_)
fill_in_all_knowns(b) ==
    LET rc == find_one_possible(b)
    IN  IF rc = << >> THEN b
        ELSE CHOOSE r \in
               {fill_in_all_knowns(nb) :
                  nb \in {set_cell(b, b.cell[p].possible[1], p[1], p[2]).board :
                            p \in {rc}}} : TRUE

\* the loop of fill_in_all_knowns unrolled: the flag returned by the set_cell
\* call of each iteration (line 159) and the board after it, in order
RECURSIVE fill_iterations(_)
fill_iterations(b) ==
    LET rc == find_one_possible(b)
    IN  IF rc = << >> THEN << >>
        ELSE LET value == b.cell[<<rc[1], rc[2]>>].possible[1]
                 r == set_cell(b, value, rc[1], rc[2])
             IN  <<r>> \o fill_iterations(r.board)

\* faulty variant: the test for an undetermined cell is missing
reached_dead_end_any(b) ==
    \E p \in Pos : Len(b.cell[p].possible) = 0

\* Sudoku.reached_dead_end
reached_dead_end(b) ==
    \E p \in Pos : b.cell[p].value = 0 /\ Len(b.cell[p].possible) = 0

\* faulty variant: one cell with a value is enough
solved_any(b) == \E p \in Pos : b.cell[p].value # 0

\* Sudoku.solved
solved(b) == \A p \in Pos : b.cell[p].value # 0

(***************************************************************************)
(* State                                                                   *)
(***************************************************************************)
VARIABLES
    self,      \* the board the caller builds and invokes solve on
    ret,       \* << >> before any set_cell call, then <<flag>> of the last one
    pc,        \* "build", "loop" (at the while test), "popped" (after line
               \* 187) or "done"
    puzzles,   \* solve's work list
    puzzle,    \* solve's local variable: << >> for None/unbound, else <<board>>
    trace,     \* history: the boards popped by the current call of solve, as
               \* they are after fill_in_all_knowns
    first      \* history: << >>, or <<[result, trace]>> of a completed earlier
               \* call of solve on the same board

vars == <<self, ret, pc, puzzles, puzzle, trace, first>>

Init ==
    /\ self = Sudoku
    /\ ret = << >>
    /\ pc = "build"
    /\ puzzles = << >>
    /\ puzzle = << >>
    /\ trace = << >>
    /\ first = << >>

\* a caller assigns a clue (populate, fill_puzzle, process_key)
SetCell(value, row, col) ==
    /\ pc = "build"
    /\ (row * max_val + col) % (max_val - 1) = 0
    /\ (row * max_val + col) \div (max_val - 1) < ClueCells
    /\ LET r == set_cell(self, value, row, col)
       IN  /\ self' = r.board
           /\ ret' = <<r.ret>>
    /\ UNCHANGED <<pc, puzzles, puzzle, trace, first>>

\* faulty variant: the work list starts with a new empty board
SolveStart_blank ==
    /\ pc = "build"
    /\ puzzles' = <<Sudoku>>
    /\ pc' = "loop"
    /\ UNCHANGED <<self, ret, puzzle, trace, first>>

\* solve, lines 183-184: the work list starts with a deep copy of self
SolveStart ==
    /\ pc = "build"
    /\ puzzles' = <<self>>
    /\ pc' = "loop"
    /\ UNCHANGED <<self, ret, puzzle, trace, first>>

\* faulty variant: pop(0), the oldest board of the work list is taken
SolvePop_fifo ==
    /\ pc = "loop" /\ Len(puzzles) # 0
    /\ LET popped == fill_in_all_knowns(puzzles[1])
       IN  /\ puzzle' = <<popped>>
           /\ trace' = Append(trace, popped)
    /\ puzzles' = SubSeq(puzzles, 2, Len(puzzles))
    /\ pc' = "popped"
    /\ UNCHANGED <<self, ret, first>>

\* faulty variant: line 184 pushes self itself instead of a deep copy, so the
\* first fill_in_all_knowns acts on the caller's board
SolvePop_alias ==
    /\ pc = "loop" /\ Len(puzzles) # 0
    /\ LET popped == fill_in_all_knowns(puzzles[Len(puzzles)])
       IN  /\ puzzle' = <<popped>>
           /\ trace' = Append(trace, popped)
           /\ self' = IF trace = << >> THEN popped ELSE self
    /\ puzzles' = SubSeq(puzzles, 1, Len(puzzles) - 1)
    /\ pc' = "popped"
    /\ UNCHANGED <<ret, first>>

\* lines 185-187: the loop test passes, pop the last board, fill_in_all_knowns
SolvePop ==
    /\ pc = "loop" /\ Len(puzzles) # 0
    /\ LET popped == fill_in_all_knowns(puzzles[Len(puzzles)])
       IN  /\ puzzle' = <<popped>>
           /\ trace' = Append(trace, popped)
    /\ puzzles' = SubSeq(puzzles, 1, Len(puzzles) - 1)
    /\ pc' = "popped"
    /\ UNCHANGED <<self, ret, first>>

\* lines 188-189: the popped board is solved
SolveSolved ==
    /\ pc = "popped"
    /\ solved(puzzle[1])
    /\ puzzles' = << >>
    /\ pc' = "loop"
    /\ UNCHANGED <<self, ret, puzzle, trace, first>>

\* faulty variant: puzzle is not reset to None
SolveNoSolution_keep ==
    /\ pc = "popped"
    /\ ~ solved(puzzle[1])
    /\ reached_dead_end(puzzle[1]) /\ Len(puzzles) = 0
    /\ pc' = "loop"
    /\ UNCHANGED <<self, ret, puzzles, puzzle, trace, first>>

\* lines 190-191: dead end and nothing left on the work list
SolveNoSolution ==
    /\ pc = "popped"
    /\ ~ solved(puzzle[1])
    /\ reached_dead_end(puzzle[1]) /\ Len(puzzles) = 0
    /\ puzzle' = << >>
    /\ pc' = "loop"
    /\ UNCHANGED <<self, ret, puzzles, trace, first>>

\* lines 192-193: dead end, other branches pending
SolveDeadEnd ==
    /\ pc = "popped"
    /\ ~ solved(puzzle[1])
    /\ ~ (reached_dead_end(puzzle[1]) /\ Len(puzzles) = 0)
    /\ reached_dead_end(puzzle[1])
    /\ pc' = "loop"
    /\ UNCHANGED <<self, ret, puzzles, puzzle, trace, first>>

\* faulty variant: the candidates are pushed in descending order
Forks_descending(b) ==
    LET rc == find_lowest_possibles(b)
    IN  CHOOSE forks \in
            {[i \in 1 .. Len(b.cell[p].possible) |->
                 set_cell(b, b.cell[p].possible[Len(b.cell[p].possible) + 1 - i], p[1], p[2]).board] :
               p \in {<<PyIdx(rc[1]), PyIdx(rc[2])>>}} : TRUE

\* faulty variant: set_cell is not applied to the copies
Forks_unassigned(b) ==
    LET rc == find_lowest_possibles(b)
        row == PyIdx(rc[1])
        col == PyIdx(rc[2])
        poss == b.cell[<<row, col>>].possible
    IN  [i \in 1 .. Len(poss) |-> b]

\* the copies pushed by the for loop of lines 196-199, in push order; p is
\* the (row, col) of line 195
Forks(b) ==
    LET rc == find_lowest_possibles(b)
    IN  CHOOSE forks \in
            {[i \in 1 .. Len(b.cell[p].possible) |->
                 set_cell(b, b.cell[p].possible[i], p[1], p[2]).board] :
               p \in {<<PyIdx(rc[1]), PyIdx(rc[2])>>}} : TRUE

\* the set_cell calls of the for loop of lines 196-199, in order: the flag
\* each returns and the forked board after it
ForkCalls(b) ==
    LET rc == find_lowest_possibles(b)
        row == PyIdx(rc[1])
        col == PyIdx(rc[2])
        poss == b.cell[<<row, col>>].possible
    IN  [i \in 1 .. Len(poss) |-> set_cell(b, poss[i], row, col)]

\* faulty variant: the candidates are pushed in an unspecified order, as if
\* possible were an unordered collection
SolveBranch_anyorder ==
    /\ pc = "popped"
    /\ ~ solved(puzzle[1])
    /\ ~ reached_dead_end(puzzle[1])
    /\ puzzles' \in {puzzles \o Forks(puzzle[1]),
                     puzzles \o Forks_descending(puzzle[1])}
    /\ pc' = "loop"
    /\ UNCHANGED <<self, ret, puzzle, trace, first>>

SolveBranch ==
    /\ pc = "popped"
    /\ ~ solved(puzzle[1])
    /\ ~ reached_dead_end(puzzle[1])
    /\ puzzles' = puzzles \o Forks(puzzle[1])
    /\ pc' = "loop"
    /\ UNCHANGED <<self, ret, puzzle, trace, first>>

\* lines 185 and 200: the loop test fails and solve returns puzzle
SolveReturn ==
    /\ pc = "loop" /\ Len(puzzles) = 0
    /\ pc' = "done"
    /\ UNCHANGED <<self, ret, puzzles, puzzle, trace, first>>

Next ==
    \/ \E value \in 0 .. (max_val + 1), row \in Idx, col \in Idx :
           SetCell(value, row, col)
    \/ SolveStart
    \/ SolvePop
    \/ SolveSolved
    \/ SolveNoSolution
    \/ SolveDeadEnd
    \/ SolveBranch
    \/ SolveReturn

Spec == Init /\ [][Next]_vars

\* solve is synchronous: once invoked, its loop keeps running
SolveLoop ==
    \/ SolvePop
    \/ SolveSolved
    \/ SolveNoSolution
    \/ SolveDeadEnd
    \/ SolveBranch
    \/ SolveReturn

SpecFair == Init /\ [][Next]_vars /\ WF_vars(SolveLoop)

\* the caller invokes solve once more on the same board, which is a board
\* built by the same sequence of set_cell calls; the first call's result
\* and pops are kept for comparison
SolveAgain ==
    /\ pc = "done" /\ first = << >>
    /\ first' = <<[result |-> puzzle, trace |-> trace]>>
    /\ puzzles' = <<self>>
    /\ puzzle' = << >>
    /\ trace' = << >>
    /\ pc' = "loop"
    /\ UNCHANGED <<self, ret>>

NextTwoRuns == Next \/ SolveAgain

SpecTwoRuns == Init /\ [][NextTwoRuns]_vars

(***************************************************************************)
(* Vocabulary of the properties, stated without the engine's operators     *)
(***************************************************************************)
\* every board the program holds: the caller's, the work list, solve's local
Boards ==
    {self} \cup {puzzles[i] : i \in 1 .. Len(puzzles)}
           \cup {puzzle[i] : i \in 1 .. Len(puzzle)}

ValueAt(b, p) == b.cell[p].value
Candidates(b, p) == {b.cell[p].possible[i] : i \in 1 .. Len(b.cell[p].possible)}

SameBox(p, q) ==
    /\ p[1] \div box_size = q[1] \div box_size
    /\ p[2] \div box_size = q[2] \div box_size

Peer(p, q) == p # q /\ (p[1] = q[1] \/ p[2] = q[2] \/ SameBox(p, q))

PeersOf == [p \in Pos |-> {q \in Pos : Peer(p, q)}]

\* no row, column or box holds the same non-zero value twice
PeerUnique(b) ==
    \A p \in Pos : \A q \in PeersOf[p] :
        ValueAt(b, p) # 0 => ValueAt(b, p) # ValueAt(b, q)

Full(b) == \A p \in Pos : ValueAt(b, p) # 0

\* the valid full grids, built row by row; a grid is a sequence of rows
Rows == {r \in [1 .. max_val -> 1 .. max_val] :
            \A i, j \in 1 .. max_val : i # j => r[i] # r[j]}

RowFits(g, r) ==
    \A k \in 1 .. Len(g) : \A i, j \in 1 .. max_val :
        g[k][i] = r[j] =>
            /\ i # j
            /\ ~ /\ (k - 1) \div box_size = Len(g) \div box_size
                 /\ (i - 1) \div box_size = (j - 1) \div box_size

RECURSIVE GridsOfHeight(_)
GridsOfHeight(n) ==
    IF n = 0 THEN {<< >>}
    ELSE {Append(x[1], x[2]) :
             x \in {y \in GridsOfHeight(n - 1) \X Rows : RowFits(y[1], y[2])}}

ValidGrids == GridsOfHeight(max_val)

\* the valid full grids that agree with the non-zero cells of b
Completions(b) ==
    {g \in ValidGrids :
        \A p \in Pos : ValueAt(b, p) # 0 => g[p[1] + 1][p[2] + 1] = ValueAt(b, p)}

\* solve has returned: a board, or None
Returned == pc = "done"
ReturnedBoard == pc = "done" /\ puzzle # << >>

(***************************************************************************)
(* Properties of solve                                                     *)
(***************************************************************************)
\* C1 (soundness): a board returned by solve has a non-zero value in every
\* cell and no value twice in any row, column or box.
C1_Soundness ==
    ReturnedBoard => Full(puzzle[1]) /\ PeerUnique(puzzle[1])

\* solve returned a board for a puzzle that had clues and open cells
C1_Witness ==
    /\ ReturnedBoard /\ self.cells_filled > 0
    /\ \E p \in Pos : ValueAt(self, p) = 0 /\ ValueAt(puzzle[1], p) # 0

\* C2 (completeness): when the board solve was invoked on has a valid
\* completion, solve returns a solved board, not None.
C2_Completeness ==
    Returned /\ Completions(self) # {} =>
        puzzle # << >> /\ Full(puzzle[1])

\* a solvable puzzle on which the search met a dead end with branches
\* pending is being solved
C2_Witness ==
    /\ pc = "loop" /\ Len(puzzles) > 0 /\ Len(puzzle) = 1
    /\ Completions(self) # {}
    /\ \E p \in Pos : ValueAt(puzzle[1], p) = 0 /\ Candidates(puzzle[1], p) = {}

\* C3 (no-solution signal): when the board has no valid completion solve
\* returns None with the work list exhausted, and it never returns a board
\* that still has a cell of value 0.
C3_NoSolution ==
    Returned =>
        /\ Completions(self) = {} => puzzle = << >> /\ puzzles = << >>
        /\ puzzle # << >> => \A p \in Pos : ValueAt(puzzle[1], p) # 0

\* solve returned None for a board none of whose cells was a dead end
C3_Witness ==
    /\ Returned /\ puzzle = << >> /\ Completions(self) = {}
    /\ \A p \in Pos : ValueAt(self, p) = 0 => Candidates(self, p) # {}

(***************************************************************************)
(* Properties of set_cell and of the board invariants                      *)
(***************************************************************************)
\* the values a caller may pass: 0 and max_val + 1 are out of range
Values == 0 .. (max_val + 1)

\* C4 (failed assignment leaves the board untouched): in every reachable
\* board, set_cell with a value that is not among the cell's candidates
\* (cell filled, value held by a peer, value out of range) returns False
\* and changes no value, no candidate set and not cells_filled.
C4_FailedAssignmentUntouched ==
    pc = "build" =>
        \A value \in Values, p \in Pos :
            value \notin Candidates(self, p) =>
                LET r == set_cell(self, value, p[1], p[2])
                IN  /\ r.ret = FALSE
                    /\ r.board.cell = self.cell
                    /\ r.board.cells_filled = self.cells_filled

\* the second clue was refused and the count of filled cells is still 1
C4_Witness ==
    pc = "build" /\ ret = <<FALSE>> /\ self.cells_filled = 1

\* C5 (acceptance rule): set_cell returns True exactly when the value is
\* in 1..N, the cell is undetermined and no peer holds the value; the
\* candidates of an undetermined cell are 1..N minus its peers' values.
C5_Acceptance ==
    /\ pc = "build" =>
          \A value \in Values, p \in Pos :
              set_cell(self, value, p[1], p[2]).ret
                  <=> /\ value \in 1 .. max_val
                      /\ ValueAt(self, p) = 0
                      /\ \A q \in PeersOf[p] : ValueAt(self, q) # value
    /\ \A b \in Boards, p \in Pos :
          ValueAt(b, p) = 0 =>
              Candidates(b, p) =
                  (1 .. max_val) \ {ValueAt(b, q) : q \in PeersOf[p]}

\* a value was accepted in a second cell that is no peer of the first
C5_Witness ==
    /\ pc = "build" /\ ret = <<TRUE>> /\ self.cells_filled = 2
    /\ \E p, q \in Pos : p # q /\ ValueAt(self, p) # 0
                          /\ ValueAt(self, p) = ValueAt(self, q)

\* C6 (peer uniqueness): no board the program holds, the work list
\* included, has the same non-zero value in two cells of a row, column or
\* box.
C6_PeerUnique ==
    \A b \in Boards : PeerUnique(b)

\* after a refused clue, forked boards are pending on the work list
C6_Witness ==
    /\ ret = <<FALSE>> /\ Len(puzzles) >= 2
    /\ \A i \in 1 .. Len(puzzles) : puzzles[i].cells_filled > self.cells_filled

\* C7 as stated: a cell's value is non-zero if and only if its candidate
\* set is empty.
C7_CandidateIff ==
    \A b \in Boards, p \in Pos : ValueAt(b, p) # 0 <=> Candidates(b, p) = {}

\* C7 (candidate invariant, amended): a cell with a non-zero value has an
\* empty candidate set; an undetermined cell may have an empty candidate
\* set too, which is the dead end reached_dead_end looks for.
C7_CandidateIfValue ==
    \A b \in Boards, p \in Pos : ValueAt(b, p) # 0 => Candidates(b, p) = {}

\* a board with filled cells and an undetermined cell without candidates
C7_Witness ==
    \E b \in Boards :
        /\ b.cells_filled > 0
        /\ \E p \in Pos : ValueAt(b, p) = 0 /\ Candidates(b, p) = {}

\* C8 (cached fill count): cells_filled of every board equals the number
\* of its cells with a non-zero value.
C8_FilledCount ==
    \A b \in Boards :
        b.cells_filled = Cardinality({p \in Pos : ValueAt(b, p) # 0})

\* after a refused clue, solve has propagated forced cells into a copy
C8_Witness ==
    /\ ret = <<FALSE>> /\ pc = "popped" /\ self.cells_filled > 0
    /\ puzzle[1].cells_filled > self.cells_filled + 1

RefCandidates(val, p) ==
    (1 .. max_val) \ {val[q] : q \in PeersOf[p]}

RowMajor(p) == p[1] * max_val + p[2]

\* the first cell in row-major order among a non-empty set of cells
FirstOf(cells) == CHOOSE p \in cells : \A q \in cells : RowMajor(p) <= RowMajor(q)

RefForced(val) ==
    {p \in Pos : val[p] = 0 /\ Cardinality(RefCandidates(val, p)) = 1}

\* apply all forced cells, the first in row-major order first
RECURSIVE RefPropagate(_)
RefPropagate(val) ==
    LET forced == RefForced(val)
    IN  IF forced = {} THEN val
        ELSE LET p == FirstOf(forced)
                 v == CHOOSE x \in RefCandidates(val, p) : TRUE
             IN  RefPropagate([val EXCEPT ![p] = v])

RefDeadEnd(val) == \E p \in Pos : val[p] = 0 /\ RefCandidates(val, p) = {}

\* the first row-major cell with the fewest (non-zero) candidates
RefBranchCell(val) ==
    LET open == {p \in Pos : val[p] = 0 /\ RefCandidates(val, p) # {}}
        fewest == {p \in open : \A q \in open :
                      Cardinality(RefCandidates(val, p))
                          <= Cardinality(RefCandidates(val, q))}
    IN  FirstOf(fewest)

SetMax(S) == CHOOSE x \in S : \A y \in S : y <= x

\* depth-first search; candidates pushed in ascending order on a LIFO stack
\* are explored largest first.  << >> is "no solution", else <<grid>>.
RECURSIVE RefSearch(_), RefTry(_, _, _)
RefSearch(val0) ==
    LET val == RefPropagate(val0)
    IN  IF \A p \in Pos : val[p] # 0 THEN <<val>>
        ELSE IF RefDeadEnd(val) THEN << >>
        ELSE LET p == RefBranchCell(val)
             IN  RefTry(val, p, RefCandidates(val, p))

RefTry(val, p, cands) ==
    IF cands = {} THEN << >>
    ELSE LET v == SetMax(cands)
             r == RefSearch([val EXCEPT ![p] = v])
         IN  IF r # << >> THEN r ELSE RefTry(val, p, cands \ {v})

GridOf(b) == [p \in Pos |-> ValueAt(b, p)]

\* C10 (result under the fixed exploration order): solve returns what the
\* reference depth-first search returns, for puzzles with one, several or
\* no solution.
C10_SameAsReference ==
    Returned =>
        LET ref == RefSearch(GridOf(self))
        IN  IF puzzle = << >> THEN ref = << >>
            ELSE ref = <<GridOf(puzzle[1])>>

\* solve returned a board for a puzzle with several completions on which
\* propagation was not enough and the search had to branch
C10_Witness ==
    /\ ReturnedBoard /\ Cardinality(Completions(self)) > 1
    /\ \E p \in Pos : ValueAt(self, p) # 0
    /\ puzzle[1] # fill_in_all_knowns(self)

(***************************************************************************)
(* Determinism, termination, isolation                                     *)
(***************************************************************************)
IsPrefix(s, t) == Len(s) <= Len(t) /\ \A i \in 1 .. Len(s) : s[i] = t[i]

C12_Termination ==
    /\ []<>(pc \notin {"loop", "popped"})
    /\ [][(pc \in {"loop", "popped"}) =>
              (pc' \in {"loop", "popped", "done"})]_vars
    /\ [][pc = "popped" =>
            \A i \in (Len(puzzles) + 1) .. Len(puzzles') :
                puzzles'[i].cells_filled > puzzle[1].cells_filled]_vars

\* solve has returned after four or more iterations of its loop
C12_Witness ==
    pc = "done" /\ first = << >> /\ Len(trace) >= 4

C14_Idempotent ==
    pc = "build" =>
        LET once == fill_in_all_knowns(self)
            twice == fill_in_all_knowns(once)
        IN  /\ twice.cell = once.cell
            /\ twice.cells_filled = once.cells_filled
            /\ \A p \in Pos : Len(once.cell[p].possible) # 1

\* a board on which the first fill_in_all_knowns assigns several cells
C14_Witness ==
    /\ pc = "build"
    /\ fill_in_all_knowns(self).cells_filled >= self.cells_filled + 3

\* board c is board b after some operations: cells_filled has not decreased
\* and every cell that had a non-zero value still has it
Mono(b, c) ==
    /\ c.cells_filled >= b.cells_filled
    /\ \A p \in Pos : b.cell[p].value # 0 => c.cell[p].value = b.cell[p].value

\* C15 (monotonicity): along every sequence of operations on a board
\* cells_filled never decreases and a cell with a non-zero value keeps it:
\* across every set_cell call on the caller's board, across the pop with
\* fill_in_all_knowns, from a branched board to each of its forks, and from
\* the board solve was invoked on to every board solve holds.
C15_Monotonic ==
    /\ [][/\ Mono(self, self')
          /\ (pc = "loop" /\ pc' = "popped") =>
                 Mono(puzzles[Len(puzzles)], puzzle'[1])
          /\ pc = "popped" =>
                 \A i \in (Len(puzzles) + 1) .. Len(puzzles') :
                     Mono(puzzle[1], puzzles'[i])]_vars
    /\ [](/\ puzzle # << >> => Mono(self, puzzle[1])
          /\ \A i \in 1 .. Len(puzzles) : Mono(self, puzzles[i]))

\* a set_cell call has failed on the caller's board and solve has returned
\* a board with more cells filled after branching
C15_Witness ==
    /\ pc = "done" /\ ret = <<FALSE>> /\ puzzle # << >>
    /\ puzzle[1].cells_filled > self.cells_filled
    /\ Len(trace) >= 3

\* the boards set_cell is about to be called on: the caller's board while it
\* is being built, and the popped board that the branch step forks
AssignedBoards ==
    IF pc = "build" THEN {self}
    ELSE IF pc = "popped" THEN {puzzle[1]}
    ELSE {}

\* C16 (effect and frame of a successful assignment): whenever set_cell
\* on such a board returns True, the cell gets the value and an empty
\* candidate list, cells_filled grows by exactly 1, every other cell keeps
\* its value, every cell of the same row, column or box loses exactly the
\* candidate value, and every cell outside them keeps its candidate list.
C16_EffectAndFrame ==
    \A before \in AssignedBoards, value \in Values, row \in Idx, col \in Idx :
        LET r == set_cell(before, value, row, col)
            b == r.board
            at == <<row, col>>
        IN  r.ret =>
              /\ ValueAt(b, at) = value
              /\ b.cell[at].possible = << >>
              /\ b.cells_filled = before.cells_filled + 1
              /\ \A p \in Pos \ {at} :
                     /\ ValueAt(b, p) = ValueAt(before, p)
                     /\ IF p \in PeersOf[at]
                        THEN Candidates(b, p) = Candidates(before, p) \ {value}
                        ELSE b.cell[p].possible = before.cell[p].possible

\* the caller's last set_cell call returned True on a board that already
\* had a value and some reduced candidate lists
C16_Witness ==
    /\ pc = "build" /\ ret = <<TRUE>>
    /\ self.cells_filled >= 2

\* the boards fill_in_all_knowns is about to be called on: the caller's board
\* while it is being built, and the board solve pops next
FilledBoards ==
    IF pc = "build" THEN {self}
    ELSE IF pc = "loop" /\ Len(puzzles) # 0 THEN {puzzles[Len(puzzles)]}
    ELSE {}

\* C17 (forced assignments succeed, propagation terminates): on every such
\* board, each iteration of fill_in_all_knowns has
\* its set_cell call return True and raises cells_filled by exactly 1, the
\* loop runs at most N*N iterations, and the board it ends on, which is the
\* board fill_in_all_knowns leaves, has no cell with exactly one candidate.
C17_ForcedSucceed ==
    \A b \in FilledBoards :
        LET its == fill_iterations(b)
            n == Len(its)
            before(i) == IF i = 1 THEN b ELSE its[i - 1].board
            end == IF n = 0 THEN b ELSE its[n].board
        IN  /\ n <= max_val * max_val
            /\ \A i \in 1 .. n :
                   /\ its[i].ret
                   /\ its[i].board.cells_filled = before(i).cells_filled + 1
            /\ end = fill_in_all_knowns(b)
            /\ \A p \in Pos : Len(end.cell[p].possible) # 1

\* the board built so far makes fill_in_all_knowns iterate four times or more
C17_Witness ==
    /\ pc = "build" /\ ret = <<TRUE>>
    /\ Len(fill_iterations(self)) >= 4

\* a list of numbers in ascending order
Ascending(list) == \A i \in 1 .. (Len(list) - 1) : list[i] < list[i + 1]

\* solve is at its loop test right after a branch step: puzzle is the board
\* that was branched, neither solved nor at a dead end
AfterBranch ==
    /\ pc = "loop" /\ puzzle # << >>
    /\ \E p \in Pos : ValueAt(puzzle[1], p) = 0
    /\ \A p \in Pos : ValueAt(puzzle[1], p) = 0 => Candidates(puzzle[1], p) # {}

\* C18 (branch order): the possible list of every cell of every board is
\* ascending; after a branch step the work list ends with one copy per
\* candidate of one undetermined cell of the branched board, the copies
\* carrying the candidates in ascending order; a branch step only appends;
\* a pop takes the last board of the work list and leaves the others in
\* place, so the copy with the largest candidate is processed first and an
\* older board only after every later one.
C18_BranchOrder ==
    /\ [](\A b \in Boards : \A p \in Pos : Ascending(b.cell[p].possible))
    /\ [](AfterBranch =>
            \E c \in Pos :
                LET poss == puzzle[1].cell[c].possible
                    k == Len(poss)
                IN  /\ ValueAt(puzzle[1], c) = 0
                    /\ k >= 2 /\ Len(puzzles) >= k
                    /\ \A i \in 1 .. k :
                           ValueAt(puzzles[Len(puzzles) - k + i], c) = poss[i]
                    /\ \A v \in Candidates(puzzle[1], c) :
                           v <= ValueAt(puzzles[Len(puzzles)], c))
    /\ [][/\ (pc = "popped" /\ Len(puzzles') > Len(puzzles)) =>
                 SubSeq(puzzles', 1, Len(puzzles)) = puzzles
          /\ (pc = "loop" /\ pc' = "popped") =>
                 /\ puzzle'[1] = fill_in_all_knowns(puzzles[Len(puzzles)])
                 /\ puzzles' = SubSeq(puzzles, 1, Len(puzzles) - 1)]_vars

\* a board has been popped while two or more older boards were pending,
\* after three branch steps or more
C18_Witness ==
    /\ pc = "popped" /\ Len(puzzles) >= 2
    /\ Len(trace) >= 4

\* the cells of b that have at least one candidate
WithCandidates(b) == {p \in Pos : Candidates(b, p) # {}}

\* C19 (find_lowest_possibles selection): on every board held by the caller
\* or by solve the result is (-1, -1) exactly when no cell has a candidate;
\* otherwise it is a cell with a candidate whose candidate count is the
\* smallest among such cells and which comes first in row-major order among
\* the cells of that count.
C19_LowestPossibles ==
    \A b \in Boards :
        LET rc == find_lowest_possibles(b)
            n(p) == Cardinality(Candidates(b, p))
        IN  /\ (rc = <<-1, -1>>) <=> (WithCandidates(b) = {})
            /\ rc # <<-1, -1>> =>
                  /\ rc \in WithCandidates(b)
                  /\ \A q \in WithCandidates(b) :
                         /\ n(rc) <= n(q)
                         /\ n(q) = n(rc) => RowMajor(rc) <= RowMajor(q)

\* solve has popped a board on which the cell returned is neither the first
\* cell with candidates nor the only one with the smallest count
C19_Witness ==
    /\ pc = "popped"
    /\ LET b == puzzle[1]
           rc == find_lowest_possibles(b)
       IN  /\ rc # <<-1, -1>>
           /\ \E q \in WithCandidates(b) : RowMajor(q) < RowMajor(rc)
           /\ \E q \in WithCandidates(b) :
                  /\ q # rc
                  /\ Cardinality(Candidates(b, q)) = Cardinality(Candidates(b, rc))

\* the cells of b that have exactly one candidate
Singles(b) == {p \in Pos : Cardinality(Candidates(b, p)) = 1}

\* C20 (find_one_possible selection): on every board held by the caller or
\* by solve the result is (None, None) exactly when no cell has exactly one
\* candidate; otherwise it is the first cell in row-major order that has
\* exactly one candidate, and that cell has no value.
C20_OnePossible ==
    \A b \in Boards :
        LET rc == find_one_possible(b)
        IN  /\ (rc = << >>) <=> (Singles(b) = {})
            /\ rc # << >> =>
                  /\ rc = FirstOf(Singles(b))
                  /\ ValueAt(b, rc) = 0

\* the board built so far has several single-candidate cells, and a cell
\* with more candidates comes before the one returned
C20_Witness ==
    /\ pc = "build"
    /\ Cardinality(Singles(self)) >= 2
    /\ \E q \in Pos :
           /\ RowMajor(q) < RowMajor(find_one_possible(self))
           /\ Cardinality(Candidates(self, q)) >= 2

\* solve is at its branch case: the popped board, after fill_in_all_knowns,
\* passed neither the solved test nor the dead-end tests
BranchCase ==
    /\ pc = "popped"
    /\ ~ solved(puzzle[1])
    /\ ~ reached_dead_end(puzzle[1])

\* C21 (the branch step is well-defined): at the branch case
\* find_lowest_possibles returns a cell of the board, never (-1, -1), that
\* has value 0 and two candidates or more; every set_cell call on a forked
\* copy returns True; and the step pushes two boards or more, each with
\* cells_filled greater than the popped board's.
C21_BranchWellDefined ==
    /\ [](BranchCase =>
            LET b == puzzle[1]
                rc == find_lowest_possibles(b)
                calls == ForkCalls(b)
            IN  /\ rc # <<-1, -1>>
                /\ rc \in Pos
                /\ ValueAt(b, rc) = 0
                /\ Cardinality(Candidates(b, rc)) >= 2
                /\ Len(calls) = Cardinality(Candidates(b, rc))
                /\ \A i \in 1 .. Len(calls) : calls[i].ret
                /\ Forks(b) = [i \in 1 .. Len(calls) |-> calls[i].board])
    /\ [][BranchCase =>
            /\ Len(puzzles') >= Len(puzzles) + 2
            /\ \A i \in (Len(puzzles) + 1) .. Len(puzzles') :
                   puzzles'[i].cells_filled > puzzle[1].cells_filled]_vars

\* solve is at its branch case on a board that is itself a fork, with a
\* selected cell of three candidates or more
C21_Witness ==
    /\ BranchCase
    /\ Len(trace) >= 2
    /\ Len(ForkCalls(puzzle[1])) >= 3

\* every cell with a non-zero value in board b has the same value in board c
KeepsValues(b, c) ==
    \A p \in Pos : ValueAt(b, p) # 0 => ValueAt(c, p) = ValueAt(b, p)

\* C22 (clue preservation): when solve has returned a board, every cell
\* that has a non-zero value in the board solve was invoked on has the same
\* value in the returned board; and every board a branch step pushes has,
\* in every cell where the branched board has a non-zero value, that value.
C22_CluesKept ==
    /\ []((pc = "done" /\ puzzle # << >>) => KeepsValues(self, puzzle[1]))
    /\ [][pc = "popped" =>
            \A i \in (Len(puzzles) + 1) .. Len(puzzles') :
                KeepsValues(puzzle[1], puzzles'[i])]_vars

\* solve has returned a board for a board with three clues or more, after
\* popping forks of forks
C22_Witness ==
    /\ pc = "done" /\ puzzle # << >>
    /\ self.cells_filled >= 3
    /\ Len(trace) >= 4
====
